---- MODULE Spec2Model ----
(***************************************************************************)
(* A model of snowflake/core/_common.py: the memoizing ObjectCollection    *)
(* and its scoped variants, the reference mixins that derive qualified     *)
(* names, the case-insensitive enum metaclass, and the PointOfTime         *)
(* discriminated model with its to_dict / from_dict conversions.           *)
(*                                                                         *)
(* Strings that the code inspects character by character (enum keys,       *)
(* qualified names) are sequences of one-character strings; strings that   *)
(* are only compared or used as dict keys are TLA+ strings.  A Python dict *)
(* that the code iterates is a sequence of [k, v] entries in insertion     *)
(* order; a dict that is only indexed is a function.  Object identity is   *)
(* the index of the object in the heap sequence that allocated it.         *)
(***************************************************************************)
EXTENDS Integers, Sequences, FiniteSets, TLC

VARIABLES
    \* ---- collection hierarchy, single-threaded ----
    handles,      \* heap of handles: [name, collection]
    colls,        \* heap of collections: [kind, owner, items]
    origin,       \* history: per handle, the names/handles given when it was made
    collOrigin,   \* history: per collection, the origin of its owner
    firstRet,     \* history: <<c, name>> -> handle the first get returned
    ctorCount,    \* history: <<c, name>> -> times the element constructor ran
    firstOrder,   \* history: per collection, names in order of their first get
    lastGet,      \* history: the last get call, what it returned, whether the name
                  \* had been fetched before
    \* ---- one collection shared by threads ----
    cItems, cHeap, cCtor, tpc, targ, tnew, tret, useLock, lockOwner,
    \* ---- PointOfTime ----
    potVal, wire, potPc, potCls, depth, outcome, assertsOn,
    \* ---- CaseInsensitiveEnumMeta ----
    enumCls, key, convertedName, enumPc, enumResult

collVars == <<handles, colls, origin, collOrigin, firstRet, ctorCount, firstOrder, lastGet>>
concVars == <<cItems, cHeap, cCtor, tpc, targ, tnew, tret, useLock, lockOwner>>
potVars  == <<potVal, wire, potPc, potCls, depth, outcome, assertsOn>>
enumVars == <<enumCls, key, convertedName, enumPc, enumResult>>
vars == <<collVars, concVars, potVars, enumVars>>
notColl == <<concVars, potVars, enumVars>>
notConc == <<collVars, potVars, enumVars>>
notPot == <<collVars, concVars, enumVars>>
notEnum == <<collVars, concVars, potVars>>

(***************************************************************************)
(* Bounds of the model.                                                    *)
(***************************************************************************)
MaxHandles == 3
MaxColls == 3
NThreads == 2
RecursionLimit == 3

Names == { <<"D", "1">>, <<"S", "1">>, <<"T">> }
Dot == <<".">>

(***************************************************************************)
(* dict operations on insertion-ordered entry sequences.                   *)
(***************************************************************************)
ContainsNever(items, item) == FALSE

\* `item in self._items`
Contains(items, item) == \E i \in 1..Len(items) : items[i].k = item

\* `self._items[item]` (read)
Lookup(items, item) == items[CHOOSE i \in 1..Len(items) : items[i].k = item].v

DictSetFront(items, item, v) == <<[k |-> item, v |-> v]>> \o items

\* `self._items[item] = v`: a new key goes last, an existing key keeps its place
DictSet(items, item, v) ==
    IF \E i \in 1..Len(items) : items[i].k = item
    THEN [i \in 1..Len(items) |-> IF items[i].k = item THEN [k |-> item, v |-> v] ELSE items[i]]
    ELSE Append(items, [k |-> item, v |-> v])

\* keys() / __iter__
Keys(items) == [i \in 1..Len(items) |-> items[i].k]

\* values()
Values(items) == [i \in 1..Len(items) |-> items[i].v]

\* items()
Items(items) == [i \in 1..Len(items) |-> <<items[i].k, items[i].v>>]

\* `self._ref_class(item, self)`: the handle keeps its name and its collection
RefClass(item, c) == [name |-> item, collection |-> c]

\* ObjectCollection.__init__ plus the scoped variant's owner
NewColl(kind, owner) == [kind |-> kind, owner |-> owner, items |-> <<>>]

(***************************************************************************)
(* Navigation of the scoped collections and the reference mixins.          *)
(***************************************************************************)
\* DatabaseObjectCollectionParent.database
DbCollDatabase(c) == colls[c].owner

\* SchemaObjectCollectionParent.schema
SchemaCollSchema(c) == colls[c].owner

\* SchemaObjectCollectionParent.database: self.schema.collection.database
SchemaCollDatabase(c) == DbCollDatabase(handles[SchemaCollSchema(c)].collection)

\* DatabaseObjectReferenceMixin.database: self.collection.database
DbRefDatabase(h) == DbCollDatabase(handles[h].collection)

\* DatabaseObjectReferenceMixin.qualified_name
QualifiedName(h) == handles[DbRefDatabase(h)].name \o Dot \o handles[h].name

\* SchemaObjectReferenceMixin.schema: self.collection.schema
SchemaRefSchema(h) == SchemaCollSchema(handles[h].collection)

\* SchemaObjectReferenceMixin.database: self.collection.schema.database
SchemaRefDatabase(h) == DbRefDatabase(SchemaCollSchema(handles[h].collection))

FullyQualifiedNameSwapped(h) ==
    handles[SchemaRefSchema(h)].name \o Dot \o handles[SchemaRefDatabase(h)].name
        \o Dot \o handles[h].name

\* SchemaObjectReferenceMixin.fully_qualified_name
FullyQualifiedName(h) ==
    handles[SchemaRefDatabase(h)].name \o Dot \o handles[SchemaRefSchema(h)].name
        \o Dot \o handles[h].name

(***************************************************************************)
(* Single-threaded operations on the hierarchy.                            *)
(***************************************************************************)
CollKeys == { <<c, n>> : c \in 1..MaxColls, n \in Names }

InitColl ==
    /\ handles = <<>>
    /\ colls = << NewColl("account", 0) >>
    /\ origin = <<>>
    /\ collOrigin = << [path |-> <<>>, chain |-> <<>>] >>
    /\ firstRet = [x \in CollKeys |-> 0]
    /\ ctorCount = [x \in CollKeys |-> 0]
    /\ firstOrder = [c \in 1..MaxColls |-> <<>>]
    /\ lastGet = [c |-> 0, name |-> <<>>, ret |-> 0, repeat |-> FALSE]

\* ObjectCollection.__getitem__, run to completion
GetItem(c, item) ==
    LET old == colls[c].items
        absent == ~Contains(old, item)
        new == Len(handles) + 1
        items2 == IF absent THEN DictSet(old, item, new) ELSE old
        ret == Lookup(items2, item)
    IN /\ absent => Len(handles) < MaxHandles
       /\ handles' = IF absent THEN Append(handles, RefClass(item, c)) ELSE handles
       /\ colls' = [colls EXCEPT ![c].items = items2]
       /\ origin' = IF absent
                    THEN Append(origin, [path |-> Append(collOrigin[c].path, item),
                                         chain |-> collOrigin[c].chain])
                    ELSE origin
       /\ ctorCount' = IF absent THEN [ctorCount EXCEPT ![<<c, item>>] = @ + 1] ELSE ctorCount
       /\ firstRet' = IF firstRet[<<c, item>>] = 0
                      THEN [firstRet EXCEPT ![<<c, item>>] = ret] ELSE firstRet
       /\ firstOrder' = IF firstRet[<<c, item>>] = 0
                        THEN [firstOrder EXCEPT ![c] = Append(@, item)] ELSE firstOrder
       /\ lastGet' = [c |-> c, name |-> item, ret |-> ret, repeat |-> firstRet[<<c, item>>] # 0]
       /\ UNCHANGED collOrigin
       /\ UNCHANGED notColl

\* DatabaseObjectCollectionParent(database, ref_class) for a database handle
NewDatabaseColl(d) ==
    /\ Len(colls) < MaxColls
    /\ colls[handles[d].collection].kind = "account"
    /\ colls' = Append(colls, NewColl("database", d))
    /\ collOrigin' = Append(collOrigin, [path |-> origin[d].path,
                                         chain |-> Append(origin[d].chain, d)])
    /\ UNCHANGED <<handles, origin, firstRet, ctorCount, firstOrder, lastGet>>
    /\ UNCHANGED notColl

\* SchemaObjectCollectionParent(schema, ref_class) for a schema handle
NewSchemaColl(s) ==
    /\ Len(colls) < MaxColls
    /\ colls[handles[s].collection].kind = "database"
    /\ colls' = Append(colls, NewColl("schema", s))
    /\ collOrigin' = Append(collOrigin, [path |-> origin[s].path,
                                         chain |-> Append(origin[s].chain, s)])
    /\ UNCHANGED <<handles, origin, firstRet, ctorCount, firstOrder, lastGet>>
    /\ UNCHANGED notColl

(***************************************************************************)
(* ObjectCollection.__getitem__ run by several threads on one collection.  *)
(* Each thread makes one call; the interpreter may switch threads between  *)
(* the membership test, the construction, the store and the final read.    *)
(* useLock selects the variant the specification asks of a concurrent      *)
(* port: one lock held from before the test until after the store.         *)
(***************************************************************************)
Threads == 1..NThreads
ThreadNames == { <<"a">>, <<"b">> }

InitConc ==
    /\ cItems = <<>>
    /\ cHeap = 0
    /\ cCtor = [n \in ThreadNames |-> 0]
    /\ tpc = [t \in Threads |-> "idle"]
    /\ targ = [t \in Threads |-> <<>>]
    /\ tnew = [t \in Threads |-> 0]
    /\ tret = [t \in Threads |-> 0]
    /\ useLock \in BOOLEAN
    /\ lockOwner = 0

\* a caller enters __getitem__(item)
TCall(t, item) ==
    /\ tpc[t] = "idle"
    /\ tpc' = [tpc EXCEPT ![t] = IF useLock THEN "acquire" ELSE "check"]
    /\ targ' = [targ EXCEPT ![t] = item]
    /\ UNCHANGED <<cItems, cHeap, cCtor, tnew, tret, useLock, lockOwner>>
    /\ UNCHANGED notConc

\* the lock of the protected variant is taken
TAcquire(t) ==
    /\ tpc[t] = "acquire"
    /\ lockOwner = 0
    /\ lockOwner' = t
    /\ tpc' = [tpc EXCEPT ![t] = "check"]
    /\ UNCHANGED <<cItems, cHeap, cCtor, targ, tnew, tret, useLock>>
    /\ UNCHANGED notConc

\* `if item not in self._items:`
TCheck(t) ==
    /\ tpc[t] = "check"
    /\ tpc' = [tpc EXCEPT ![t] = IF ~Contains(cItems, targ[t]) THEN "construct"
                                  ELSE IF useLock THEN "release" ELSE "return"]
    /\ UNCHANGED <<cItems, cHeap, cCtor, targ, tnew, tret, useLock, lockOwner>>
    /\ UNCHANGED notConc

\* `self._ref_class(item, self)`: a new handle is allocated
TConstruct(t) ==
    /\ tpc[t] = "construct"
    /\ cHeap' = cHeap + 1
    /\ tnew' = [tnew EXCEPT ![t] = cHeap + 1]
    /\ cCtor' = [cCtor EXCEPT ![targ[t]] = @ + 1]
    /\ tpc' = [tpc EXCEPT ![t] = "store"]
    /\ UNCHANGED <<cItems, targ, tret, useLock, lockOwner>>
    /\ UNCHANGED notConc

\* `self._items[item] = <the new handle>`
TStore(t) ==
    /\ tpc[t] = "store"
    /\ cItems' = DictSet(cItems, targ[t], tnew[t])
    /\ tpc' = [tpc EXCEPT ![t] = IF useLock THEN "release" ELSE "return"]
    /\ UNCHANGED <<cHeap, cCtor, targ, tnew, tret, useLock, lockOwner>>
    /\ UNCHANGED notConc

\* the lock of the protected variant is given back
TRelease(t) ==
    /\ tpc[t] = "release"
    /\ lockOwner = t
    /\ lockOwner' = 0
    /\ tpc' = [tpc EXCEPT ![t] = "return"]
    /\ UNCHANGED <<cItems, cHeap, cCtor, targ, tnew, tret, useLock>>
    /\ UNCHANGED notConc

\* `return self._items[item]`
TReturn(t) ==
    /\ tpc[t] = "return"
    /\ tret' = [tret EXCEPT ![t] = Lookup(cItems, targ[t])]
    /\ tpc' = [tpc EXCEPT ![t] = "done"]
    /\ UNCHANGED <<cItems, cHeap, cCtor, targ, tnew, useLock, lockOwner>>
    /\ UNCHANGED notConc

(***************************************************************************)
(* PointOfTime.                                                            *)
(***************************************************************************)
\* Python's None, where a dict value is Optional[str]
NoneVal == "<None>"

\* PointOfTime.__properties
Properties == {"point_of_time_type", "reference", "when"}

\* PointOfTime.__discriminator_property_name
DiscriminatorPropertyName == "point_of_time_type"

\* PointOfTime.__discriminator_value_class_map
DiscriminatorValueClassMap ==
    [t \in {"offset", "statement", "timestamp"} |->
        CASE t = "offset" -> "PointOfTimeOffset"
          [] t = "statement" -> "PointOfTimeStatement"
          [] t = "timestamp" -> "PointOfTimeTimestamp"]

PotClasses == {"PointOfTime", "PointOfTimeOffset", "PointOfTimeTimestamp", "PointOfTimeStatement"}

\* the classes whose body defines from_dict; the three variants define only a
\* default for point_of_time_type
DefinesFromDict == {"PointOfTime"}

\* attribute lookup of from_dict along the class's bases (each variant's base
\* is PointOfTime)
ResolveFromDict(cls) == IF cls \in DefinesFromDict THEN cls ELSE "PointOfTime"

\* the default of point_of_time_type a class declares (the base declares none)
DefaultType(cls) ==
    CASE cls = "PointOfTimeOffset" -> "offset"
      [] cls = "PointOfTimeTimestamp" -> "timestamp"
      [] cls = "PointOfTimeStatement" -> "statement"
      [] OTHER -> NoneVal

TypeStrings == {"offset", "statement", "timestamp", "bogus",
                "when", "reference", "point_of_time_type"}
ReferenceStrings == {"at", "before"}
WhenStrings == {"-5", "2024-01-01T00:00:00Z"}

\* the values the constructors accept: the fields are unconstrained strings,
\* and a variant's point_of_time_type is a default that may be overridden
PotValues ==
    { [cls |-> c, point_of_time_type |-> t, reference |-> r, when |-> w] :
        c \in PotClasses, t \in TypeStrings, r \in ReferenceStrings, w \in WhenStrings }

NoValue == [cls |-> "none", point_of_time_type |-> "", reference |-> "", when |-> ""]

EmptyDict == [x \in {} |-> ""]

\* d[k] = v
DictPut(d, k, v) == [x \in (DOMAIN d) \cup {k} |-> IF x = k THEN v ELSE d[x]]

\* del d[k]
DictDel(d, k) == [x \in (DOMAIN d) \ {k} |-> d[x]]

ToDictKeepsWhen(v) ==
    LET d == [p \in Properties |-> v[p]]
    IN DictPut(d, d[DiscriminatorPropertyName], d["when"])

\* PointOfTime.to_dict
ToDict(v) ==
    LET d == [p \in Properties |-> v[p]]
        d1 == DictPut(d, d[DiscriminatorPropertyName], d["when"])
    IN DictDel(d1, "when")

\* wire dicts handed to from_dict directly
RawDicts ==
    { DictPut(DictPut([x \in {DiscriminatorPropertyName} |-> t], "reference", r), t, w) :
        t \in {"offset", "statement", "timestamp", "bogus"},
        r \in ReferenceStrings, w \in WhenStrings }
    \cup { DictPut([x \in {DiscriminatorPropertyName} |-> NoneVal], "reference", r) :
            r \in ReferenceStrings }
    \cup { [x \in {"reference"} |-> r] : r \in ReferenceStrings }

NoOutcome == [kind |-> "none"]

InitPoT ==
    /\ assertsOn \in BOOLEAN
    /\ potCls = "PointOfTime"
    /\ depth = 0
    /\ outcome = NoOutcome
    /\ \/ /\ potVal \in PotValues
          /\ wire = EmptyDict
          /\ potPc = "value"
       \/ /\ potVal = NoValue
          /\ wire \in RawDicts
          /\ potPc = "wire"

\* v.to_dict()
PotToDict ==
    /\ potPc = "value"
    /\ wire' = ToDict(potVal)
    /\ potPc' = "wire"
    /\ UNCHANGED <<potVal, potCls, depth, outcome, assertsOn>>
    /\ UNCHANGED notPot

\* PointOfTime.from_dict(obj) is called
PotFromDict ==
    /\ potPc = "wire"
    /\ potCls' = "PointOfTime"
    /\ potPc' = "from_dict"
    /\ UNCHANGED <<potVal, wire, depth, outcome, assertsOn>>
    /\ UNCHANGED notPot

PotRaise(o) ==
    /\ outcome' = o
    /\ potPc' = "done"
    /\ UNCHANGED <<potVal, wire, potCls, depth, assertsOn>>
    /\ UNCHANGED notPot

InFromDict == potPc = "from_dict" /\ depth < RecursionLimit

\* get_discriminator_value: obj[cls.__discriminator_property_name] of an absent key
PotKeyError ==
    /\ InFromDict
    /\ DiscriminatorPropertyName \notin DOMAIN wire
    /\ PotRaise([kind |-> "KeyError", arg |-> DiscriminatorPropertyName])

\* get_discriminator_value: assert discriminator_name is not None
PotAssertName ==
    /\ InFromDict
    /\ DiscriminatorPropertyName \in DOMAIN wire
    /\ assertsOn
    /\ wire[DiscriminatorPropertyName] = NoneVal
    /\ PotRaise([kind |-> "AssertionError"])

\* the value get_discriminator_value looks up, once past the first assert
PotLookedUp ==
    /\ InFromDict
    /\ DiscriminatorPropertyName \in DOMAIN wire
    /\ assertsOn => wire[DiscriminatorPropertyName] # NoneVal

\* get_discriminator_value: assert discriminator is not None
PotAssertDiscriminator ==
    /\ PotLookedUp
    /\ assertsOn
    /\ wire[DiscriminatorPropertyName] \notin DOMAIN DiscriminatorValueClassMap
    /\ PotRaise([kind |-> "AssertionError"])

\* from_dict: `if not object_type: raise ValueError(...)`, reached only when
\* the interpreter strips assert statements
PotValueError ==
    /\ PotLookedUp
    /\ ~assertsOn
    /\ wire[DiscriminatorPropertyName] \notin DOMAIN DiscriminatorValueClassMap
    /\ PotRaise([kind |-> "ValueError", obj |-> wire,
                 property |-> DiscriminatorPropertyName,
                 mapping |-> DiscriminatorValueClassMap])

\* from_dict: getattr(sys.modules[__name__], object_type).from_dict(obj); the
\* variant's from_dict is the inherited PointOfTime.from_dict, one frame deeper
PotDispatch ==
    /\ PotLookedUp
    /\ wire[DiscriminatorPropertyName] \in DOMAIN DiscriminatorValueClassMap
    /\ LET object_type == DiscriminatorValueClassMap[wire[DiscriminatorPropertyName]]
       IN /\ ResolveFromDict(object_type) = "PointOfTime"
          /\ potCls' = object_type
    /\ depth' = depth + 1
    /\ UNCHANGED <<potVal, wire, potPc, outcome, assertsOn>>
    /\ UNCHANGED notPot

\* the interpreter's frame limit is reached
PotRecursionError ==
    /\ potPc = "from_dict"
    /\ depth >= RecursionLimit
    /\ PotRaise([kind |-> "RecursionError"])

(***************************************************************************)
(* CaseInsensitiveEnumMeta, CreateMode and DeleteMode.  A str is a         *)
(* sequence of one-character strings here, so that lower() is computed.    *)
(***************************************************************************)
UpToLow ==
    ("A" :> "a") @@ ("B" :> "b") @@ ("C" :> "c") @@ ("D" :> "d") @@ ("E" :> "e") @@ ("F" :> "f") @@
    ("G" :> "g") @@ ("H" :> "h") @@ ("I" :> "i") @@ ("J" :> "j") @@ ("K" :> "k") @@ ("L" :> "l") @@
    ("M" :> "m") @@ ("N" :> "n") @@ ("O" :> "o") @@ ("P" :> "p") @@ ("Q" :> "q") @@ ("R" :> "r") @@
    ("S" :> "s") @@ ("T" :> "t") @@ ("U" :> "u") @@ ("V" :> "v") @@ ("W" :> "w") @@ ("X" :> "x") @@
    ("Y" :> "y") @@ ("Z" :> "z")

\* str.lower() and str.upper() on one character
LowerChar(c) == IF c \in DOMAIN UpToLow THEN UpToLow[c] ELSE c
UpperChar(c) == IF \E u \in DOMAIN UpToLow : UpToLow[u] = c
                THEN CHOOSE u \in DOMAIN UpToLow : UpToLow[u] = c ELSE c

\* str.lower()
Lower(s) == [i \in 1..Len(s) |-> LowerChar(s[i])]
Upper(s) == [i \in 1..Len(s) |-> UpperChar(s[i])]

\* the members of the two enumerations: name = "value"
CreateModeMembers ==
    { [name |-> <<"e", "r", "r", "o", "r", "_", "i", "f", "_", "e", "x", "i", "s", "t", "s">>,
       value |-> <<"e", "r", "r", "o", "r", "I", "f", "E", "x", "i", "s", "t", "s">>],
      [name |-> <<"o", "r", "_", "r", "e", "p", "l", "a", "c", "e">>,
       value |-> <<"o", "r", "R", "e", "p", "l", "a", "c", "e">>],
      [name |-> <<"i", "f", "_", "n", "o", "t", "_", "e", "x", "i", "s", "t", "s">>,
       value |-> <<"i", "f", "N", "o", "t", "E", "x", "i", "s", "t", "s">>] }

DeleteModeMembers ==
    { [name |-> <<"c", "a", "s", "c", "a", "d", "e">>, value |-> <<"c", "a", "s", "c", "a", "d", "e">>],
      [name |-> <<"r", "e", "s", "t", "r", "i", "c", "t">>, value |-> <<"r", "e", "s", "t", "r", "i", "c", "t">>] }

EnumClasses == {"CreateMode", "DeleteMode"}

Members(cls) == IF cls = "CreateMode" THEN CreateModeMembers ELSE DeleteModeMembers

\* cls._legacy_mode_map_: {item.value.lower(): item.name for item in cls}
LegacyModeMap(cls) ==
    [v \in { Lower(m.value) : m \in Members(cls) } |->
        (CHOOSE m \in Members(cls) : Lower(m.value) = v).name]

LookupGetExact(map, k) == IF k \in DOMAIN map THEN map[k] ELSE Lower(k)

LookupGetNoLower(map, k) == IF Lower(k) \in DOMAIN map THEN map[Lower(k)] ELSE k

\* lookup.get(key): super().get(key.lower(), key.lower())
LookupGet(map, k) == IF Lower(k) \in DOMAIN map THEN map[Lower(k)] ELSE Lower(k)

\* every way of casing the letters of s
CaseVariants(s) ==
    { [i \in 1..Len(s) |-> IF i \in up THEN UpperChar(s[i]) ELSE LowerChar(s[i])] :
        up \in SUBSET (1..Len(s)) }

UnknownKeys ==
    { <<"u", "n", "k", "n", "o", "w", "n", "m", "o", "d", "e">>,
      <<"U", "n", "k", "n", "o", "w", "n", "M", "o", "d", "e">>,
      <<"r", "e", "p", "l", "a", "c", "e">>,
      <<>> }

\* the keys tried: every casing of every member's wire value, the member
\* names as written, upper-cased and lower-cased, and keys naming no member
EnumKeys ==
    UNION { CaseVariants(m.value) : m \in CreateModeMembers \cup DeleteModeMembers }
    \cup UNION { {m.name, Upper(m.name), Lower(m.name)} :
                    m \in CreateModeMembers \cup DeleteModeMembers }
    \cup UnknownKeys

NoResult == [kind |-> "none"]

InitEnum ==
    /\ enumCls \in EnumClasses
    /\ key \in EnumKeys
    /\ convertedName = <<>>
    /\ enumPc = "start"
    /\ enumResult = NoResult

\* CaseInsensitiveEnumMeta.__getitem__: converted_name = cls._legacy_mode_map_.get(name)
EnumConvert ==
    /\ enumPc = "start"
    /\ convertedName' = LookupGet(LegacyModeMap(enumCls), key)
    /\ enumPc' = "super"
    /\ UNCHANGED <<enumCls, key, enumResult>>
    /\ UNCHANGED notEnum

\* super().__getitem__(converted_name) finds the member of that name
EnumReturnMember ==
    /\ enumPc = "super"
    /\ \E m \in Members(enumCls) :
          /\ m.name = convertedName
          /\ enumResult' = [kind |-> "member", name |-> m.name, value |-> m.value]
    /\ enumPc' = "done"
    /\ UNCHANGED <<enumCls, key, convertedName>>
    /\ UNCHANGED notEnum

\* super().__getitem__(converted_name) finds no member of that name
EnumKeyError ==
    /\ enumPc = "super"
    /\ \A m \in Members(enumCls) : m.name # convertedName
    /\ enumResult' = [kind |-> "KeyError", arg |-> convertedName]
    /\ enumPc' = "done"
    /\ UNCHANGED <<enumCls, key, convertedName>>
    /\ UNCHANGED notEnum

(***************************************************************************)
(* The specifications: one per component; the other components stay in    *)
(* their initial state.                                                    *)
(***************************************************************************)
IdleColl == InitColl
IdleConc == InitConc /\ useLock = FALSE
IdlePoT ==
    /\ assertsOn = TRUE /\ potCls = "PointOfTime" /\ depth = 0 /\ outcome = NoOutcome
    /\ potVal = NoValue /\ wire = EmptyDict /\ potPc = "idle"
IdleEnum ==
    /\ enumCls = "CreateMode" /\ key = <<>> /\ convertedName = <<>>
    /\ enumPc = "idle" /\ enumResult = NoResult

InitCollSpec == InitColl /\ IdleConc /\ IdlePoT /\ IdleEnum
InitConcSpec == IdleColl /\ InitConc /\ IdlePoT /\ IdleEnum
InitPoTSpec == IdleColl /\ IdleConc /\ InitPoT /\ IdleEnum
InitEnumSpec == IdleColl /\ IdleConc /\ IdlePoT /\ InitEnum

CollNext ==
    \/ \E c \in 1..Len(colls), item \in Names : GetItem(c, item)
    \/ \E d \in 1..Len(handles) : NewDatabaseColl(d)
    \/ \E s \in 1..Len(handles) : NewSchemaColl(s)

ConcNext ==
    \/ \E t \in Threads, item \in ThreadNames : TCall(t, item)
    \/ \E t \in Threads : TAcquire(t)
    \/ \E t \in Threads : TCheck(t)
    \/ \E t \in Threads : TConstruct(t)
    \/ \E t \in Threads : TStore(t)
    \/ \E t \in Threads : TRelease(t)
    \/ \E t \in Threads : TReturn(t)

PotNext ==
    \/ PotToDict
    \/ PotFromDict
    \/ PotKeyError
    \/ PotAssertName
    \/ PotAssertDiscriminator
    \/ PotValueError
    \/ PotDispatch
    \/ PotRecursionError

EnumNext ==
    \/ EnumConvert
    \/ EnumReturnMember
    \/ EnumKeyError

SpecColl == InitCollSpec /\ [][CollNext]_vars

SpecConc == InitConcSpec /\ [][ConcNext]_vars

SpecPoT == InitPoTSpec /\ [][PotNext]_vars

SpecEnum == InitEnumSpec /\ [][EnumNext]_vars

(***************************************************************************)
(* Properties of the collection hierarchy (SpecColl).                      *)
(***************************************************************************)
IsPrefix(a, b) == Len(a) <= Len(b) /\ \A i \in 1..Len(a) : a[i] = b[i]

LiveKeys == { x \in CollKeys : firstRet[x] # 0 }

\* C1: collection identity.  The element constructor runs at most once per
\* name and collection, with (name, collection); every get returns the handle
\* the first get of that name returned, which is the one still stored; and
\* different names (or collections) have different handles.
C1_CollectionIdentity ==
    /\ \A x \in CollKeys : ctorCount[x] <= 1
    /\ lastGet.c # 0 => lastGet.ret = firstRet[<<lastGet.c, lastGet.name>>]
    /\ \A x \in LiveKeys :
          /\ Contains(colls[x[1]].items, x[2])
          /\ Lookup(colls[x[1]].items, x[2]) = firstRet[x]
          /\ handles[firstRet[x]] = [name |-> x[2], collection |-> x[1]]
    /\ \A x, y \in LiveKeys : x # y => firstRet[x] # firstRet[y]

\* C1 witness: a get of a name that was already present has just returned,
\* in a collection that holds two names.
C1_Witness ==
    /\ lastGet.c # 0
    /\ lastGet.repeat
    /\ Len(colls[lastGet.c].items) >= 2

\* C8: insertion order and monotonic growth.  keys() of every collection is
\* the sequence of distinct names in order of their first get (and items(),
\* values() follow that order); a get of a present name leaves the entries
\* as they were; and no step removes or reorders an entry.
C8_InsertionOrder ==
    /\ [](\A c \in 1..Len(colls) :
            /\ Keys(colls[c].items) = firstOrder[c]
            /\ \A i \in 1..Len(colls[c].items) :
                  /\ Items(colls[c].items)[i][1] = firstOrder[c][i]
                  /\ Values(colls[c].items)[i] = firstRet[<<c, firstOrder[c][i]>>])
    /\ [][/\ \A c \in 1..Len(colls) : IsPrefix(colls[c].items, colls'[c].items)
          /\ (lastGet' # lastGet /\ lastGet'.repeat) => colls' = colls]_vars

\* C8 witness: three names were first fetched in the order T, D1, S1 and a
\* present name was fetched again afterwards.
C8_Witness ==
    /\ Keys(colls[1].items) = << <<"T">>, <<"D", "1">>, <<"S", "1">> >>
    /\ lastGet.c = 1
    /\ lastGet.name = <<"T">>
    /\ lastGet.repeat

\* C9: qualified-name composition.  A handle of a schema-scoped collection
\* has fully_qualified_name = D.S.T for the names given when its database,
\* its schema and itself were made; its database, and its collection's
\* database, are the database handle the schema was made under; a handle of
\* a database-scoped collection has qualified_name = D.N.
C9_QualifiedNames ==
    \A h \in 1..Len(handles) :
        LET c == handles[h].collection
            path == origin[h].path
        IN /\ colls[c].kind = "schema" =>
                /\ FullyQualifiedName(h) = path[1] \o Dot \o path[2] \o Dot \o path[3]
                /\ SchemaRefSchema(h) = origin[h].chain[2]
                /\ SchemaRefDatabase(h) = origin[h].chain[1]
                /\ SchemaCollDatabase(c) = origin[h].chain[1]
           /\ colls[c].kind = "database" =>
                /\ QualifiedName(h) = path[1] \o Dot \o path[2]
                /\ DbRefDatabase(h) = origin[h].chain[1]

\* C9 witness: handle T of schema S1 of database D1 exists, and its
\* fully qualified name is D1.S1.T.
C9_Witness ==
    \E h \in 1..Len(handles) :
        /\ colls[handles[h].collection].kind = "schema"
        /\ origin[h].path = << <<"D", "1">>, <<"S", "1">>, <<"T">> >>
        /\ FullyQualifiedName(h) = <<"D", "1", ".", "S", "1", ".", "T">>

(***************************************************************************)
(* Properties of the shared collection (SpecConc).                         *)
(***************************************************************************)
\* two callers that asked for the same name got different handles
TwoInstances ==
    \E t1, t2 \in Threads :
        /\ t1 # t2
        /\ tpc[t1] = "done" /\ tpc[t2] = "done"
        /\ targ[t1] = targ[t2]
        /\ tret[t1] # tret[t2]

\* C10: with one lock around the test-then-store sequence, no interleaving
\* constructs two handles for a name or hands two callers of the same name
\* different handles.  (Without the lock such an interleaving exists: the
\* witness.)
C10_LockedAtMostOne ==
    useLock => /\ \A n \in ThreadNames : cCtor[n] <= 1
               /\ ~TwoInstances

\* C10 witness: without the lock, both threads constructed a handle for the
\* same absent name and returned different instances.
C10_Witness ==
    /\ ~useLock
    /\ TwoInstances
    /\ \E n \in ThreadNames : cCtor[n] = 2

(***************************************************************************)
(* Properties of PointOfTime (SpecPoT).                                    *)
(***************************************************************************)
KnownTypes == DOMAIN DiscriminatorValueClassMap

\* the dict to_dict is specified to return for v
WireShape(d, v) ==
    /\ DOMAIN d = {"point_of_time_type", "reference", v.point_of_time_type}
    /\ Cardinality(DOMAIN d) = 3
    /\ "when" \notin DOMAIN d
    /\ d["point_of_time_type"] = v.point_of_time_type
    /\ d["reference"] = v.reference
    /\ d[v.point_of_time_type] = v.when

Converted == potVal # NoValue /\ potPc # "value"

\* C2: round trip.  For every value v of a variant, from_dict(v.to_dict())
\* ends by returning a value equal to v.
C2_RoundTrip ==
    (/\ potPc = "done"
     /\ potVal # NoValue
     /\ potVal.cls # "PointOfTime"
     /\ potVal.point_of_time_type = DefaultType(potVal.cls))
    => /\ outcome.kind = "returned"
       /\ outcome.value = potVal

\* C3: discriminator dispatch.  from_dict of a wire dict with a known
\* discriminator, a reference and the payload under the type-named key ends
\* by returning an instance of the mapped variant whose when is the payload.
C3_Dispatch ==
    (/\ potPc = "done"
     /\ potVal = NoValue
     /\ DiscriminatorPropertyName \in DOMAIN wire
     /\ wire[DiscriminatorPropertyName] \in KnownTypes
     /\ "reference" \in DOMAIN wire
     /\ wire[DiscriminatorPropertyName] \in DOMAIN wire)
    => /\ outcome.kind = "returned"
       /\ outcome.value.cls = DiscriminatorValueClassMap[wire[DiscriminatorPropertyName]]
       /\ outcome.value.when = wire[wire[DiscriminatorPropertyName]]

\* C4: unknown discriminator.  from_dict of a dict whose point_of_time_type
\* is a string other than offset/statement/timestamp fails with the error that reports the
\* offending dict and the full mapping table.
C4_UnknownDiscriminator ==
    (/\ potPc = "done"
     /\ DiscriminatorPropertyName \in DOMAIN wire
     /\ wire[DiscriminatorPropertyName] # NoneVal
     /\ wire[DiscriminatorPropertyName] \notin KnownTypes)
    => /\ outcome.kind = "ValueError"
       /\ outcome.obj = wire
       /\ outcome.mapping = DiscriminatorValueClassMap

\* C7 as stated: for every constructible value, to_dict() has exactly the
\* three keys point_of_time_type, reference and the discriminator's value,
\* holding the discriminator, the reference and the when payload.
C7_WireShapeAnyType == Converted => WireShape(wire, potVal)

\* C7 amended: the same, for every value whose point_of_time_type is not
\* itself one of the field names point_of_time_type, reference, when.
C7_WireShape ==
    (Converted /\ potVal.point_of_time_type \notin Properties) => WireShape(wire, potVal)

\* C7 witness: a timestamp value has been converted and its payload sits
\* under the key "timestamp".
C7_Witness ==
    /\ Converted
    /\ potVal.point_of_time_type = "timestamp"
    /\ "timestamp" \in DOMAIN wire
    /\ wire["timestamp"] = "2024-01-01T00:00:00Z"

(***************************************************************************)
(* Properties of the enum lookup (SpecEnum).                               *)
(***************************************************************************)
ValueMatches(cls, k) == { m \in Members(cls) : Lower(m.value) = Lower(k) }
NameMatches(cls, k) == { m \in Members(cls) : m.name = Lower(k) }
MemberResult(m) == [kind |-> "member", name |-> m.name, value |-> m.value]

C6_CaseInsensitive ==
    enumPc = "done" =>
        \A m \in ValueMatches(enumCls, key) : enumResult = MemberResult(m)

\* C6 witness: CreateMode["ERRORIFEXISTS"] has returned error_if_exists.
C6_Witness ==
    /\ enumPc = "done"
    /\ enumCls = "CreateMode"
    /\ key = <<"E", "R", "R", "O", "R", "I", "F", "E", "X", "I", "S", "T", "S">>
    /\ enumResult.kind = "member"
    /\ enumResult.value = <<"e", "r", "r", "o", "r", "I", "f", "E", "x", "i", "s", "t", "s">>

====
